---- MODULE Spec2Model ----
(***************************************************************************)
(* FlowViz core: the FlowMD line parser (parser.js), the graph model with  *)
(* adjacency and cycle detection (graph-model.js) and the downstream       *)
(* highlight engine (highlight.js); and the viewer's handlers that load a  *)
(* text, highlight a node, reset and export the edges as CSV (FlowVizApp,  *)
(* export.js).                                                             *)
(*                                                                         *)
(* A source line is a sequence of lexemes (strings): words, white space,   *)
(* edge operators, shape decorators, edge labels and the comment marker.   *)
(* The regular expressions of parser.js are applied lexeme by lexeme.      *)
(***************************************************************************)
EXTENDS Integers, Sequences, FiniteSets, TLC

VARIABLES
  opts,      \* FlowMDParser: this.maxNodes, this.preferredMaxNodes
  lines,     \* parse: the lines of the text consumed so far (text.split)
  ctx,       \* parse: the parsing context
  pc,        \* parse: "scan" inside the for loop, "done" after return/throw
  result,    \* parse: what the call produced
  graph,     \* the GraphDocument handed to GraphModel (meta.warnings is shared)
  model,     \* the GraphModel built from graph (rebuilt: built more than once)
  hl,        \* HighlightEngine.downstream: the traversal in progress
  app        \* FlowVizApp: highlightState, and the rows of the last CSV export

parserVars == <<opts, lines, ctx, pc, result>>
modelVars == <<graph, model, hl>>
vars == <<opts, lines, ctx, pc, result, graph, model, hl, app>>

(***************************************************************************)
(* Bounds                                                                  *)
(***************************************************************************)
MaxLines == 4

(***************************************************************************)
(* Lexemes                                                                 *)
(***************************************************************************)
Null == "<null>"
NoShape == "<undefined>"

WhiteSpace == {" "}
CommentMark == "%%"
\* lexemes made of [A-Za-z0-9_\-] only
WordTokens == {"A", "B", "C", "G1", "G2", "graph", "Graph", "flowchart",
               "subgraph", "end", "TB", "TD", "BT", "RL", "LR", "td"}
EdgeOps == {"-->", "--", "==>", "==", "-.->", "===>"}
ShapeTokens == {"[x]", "[]"}
LabelTokens == {"|go|"}

\* String.prototype.toUpperCase / the i flag, on the lexemes used
toUpperCase(t) == IF t = "td" THEN "TD" ELSE t
toLowerCase(t) == IF t = "Graph" THEN "graph" ELSE t

\* shape.slice(1, -1).trim(), shape[0], shape.length
ShapeInner(s) == IF s = "[x]" THEN "x" ELSE ""
ShapeLead(s) == "["
ShapeLength(s) == IF s = "[x]" THEN 3 ELSE 2
\* label.slice(1, -1).trim()
LabelInner(l) == IF l = "|go|" THEN "go" ELSE ""

RECURSIVE TrimStart(_)
TrimStart(s) ==
  IF s /= <<>> /\ Head(s) \in WhiteSpace THEN TrimStart(Tail(s)) ELSE s

RECURSIVE TrimEnd(_)
TrimEnd(s) ==
  IF s /= <<>> /\ s[Len(s)] \in WhiteSpace
  THEN TrimEnd(SubSeq(s, 1, Len(s) - 1)) ELSE s

\* String.prototype.trim
Trim(s) == TrimEnd(TrimStart(s))

\* the first index >= i of s that holds no white space (Len(s)+1 if none): \s*
RECURSIVE SkipWS(_, _)
SkipWS(s, i) ==
  IF i <= Len(s) /\ s[i] \in WhiteSpace THEN SkipWS(s, i + 1) ELSE i

\* line.split(/\s+/, limit): the fields between runs of white space
RECURSIVE SplitWS(_, _, _, _)
SplitWS(s, i, cur, limit) ==
  IF limit = 0 THEN <<>>
  ELSE IF i > Len(s) THEN <<cur>>
  ELSE IF s[i] \in WhiteSpace
       THEN <<cur>> \o SplitWS(s, SkipWS(s, i), "", limit - 1)
       ELSE SplitWS(s, i + 1, cur \o s[i], limit)

(***************************************************************************)
(* The patterns of parser.js                                               *)
(***************************************************************************)
Orientations == {"TB", "TD", "BT", "RL", "LR"}

\* ORIENTATION_PATTERN = /^(graph|flowchart)\s+(TB|TD|BT|RL|LR)?/i
OrientationMatch(line) ==
  /\ Len(line) >= 2
  /\ toLowerCase(line[1]) \in {"graph", "flowchart"}
  /\ line[2] \in WhiteSpace

\* match[2] of ORIENTATION_PATTERN (NoShape stands for undefined)
OrientationGroup(line) ==
  LET j == SkipWS(line, 2)
  IN IF j <= Len(line) /\ toUpperCase(line[j]) \in Orientations
     THEN line[j] ELSE NoShape

\* /^subgraph\s+/i.test(line)
SubgraphTest(line) ==
  /\ Len(line) >= 2
  /\ toLowerCase(line[1]) = "subgraph"
  /\ line[2] \in WhiteSpace

\* /^end$/i.test(line)
EndTest(line) == Len(line) = 1 /\ toLowerCase(line[1]) = "end"

\* EDGE_PATTERN: lhs \s* edge \s* label? \s* rhs decor
EdgeOpAt(line) == SkipWS(line, 2)
EdgeLabelAt(line) == SkipWS(line, EdgeOpAt(line) + 1)
EdgeHasLabel(line) ==
  EdgeLabelAt(line) <= Len(line) /\ line[EdgeLabelAt(line)] \in LabelTokens
EdgeRhsAt(line) ==
  IF EdgeHasLabel(line) THEN SkipWS(line, EdgeLabelAt(line) + 1)
  ELSE EdgeLabelAt(line)
EdgeMatch(line) ==
  /\ Len(line) >= 3
  /\ line[1] \in WordTokens
  /\ EdgeOpAt(line) <= Len(line)
  /\ line[EdgeOpAt(line)] \in EdgeOps
  /\ EdgeRhsAt(line) <= Len(line)
  /\ line[EdgeRhsAt(line)] \in WordTokens

\* NODE_PATTERN: id shape? with nothing else on the line
NodeMatch(line) ==
  \/ Len(line) = 1 /\ line[1] \in WordTokens
  \/ Len(line) = 2 /\ line[1] \in WordTokens /\ line[2] \in ShapeTokens
NodeShape(line) == IF Len(line) = 2 THEN line[2] ELSE NoShape

(***************************************************************************)
(* FlowMDParser                                                            *)
(***************************************************************************)
NoError == [message |-> "", line |-> 0]

\* parse: const ctx = {...}
InitCtx == [orientation |-> "TB", orientationParsed |-> FALSE,
            nodes |-> <<>>, edges |-> <<>>, groups |-> <<>>,
            logs |-> <<>>, warnings |-> <<>>, currentGroup |-> Null,
            line |-> 0, thrown |-> NoError]

makeWarning(message, c) == [message |-> message, line |-> c.line]

HasNode(nodes, id) == \E i \in 1..Len(nodes) : nodes[i].id = id
HasGroup(groups, name) == \E i \in 1..Len(groups) : groups[i].name = name
InSeq(s, x) == \E i \in 1..Len(s) : s[i] = x
\* Set.prototype.add on an insertion-ordered set
SetAdd(s, x) == IF InSeq(s, x) THEN s ELSE Append(s, x)

\* ensureNode without the ctx.nodes.has(id) test: every sighting registers
ensureNode_NoHasTest(id, c, shape) ==
  [c EXCEPT !.nodes = Append(@,
     [id |-> id, label |-> id, shape |-> "[]", line |-> c.line,
      group |-> c.currentGroup])]

ensureNode(id, c, shape) ==
  IF ~HasNode(c.nodes, id)
  THEN LET label == IF shape /= NoShape THEN ShapeInner(shape) ELSE id
       IN [c EXCEPT !.nodes = Append(@,
             [id |-> id,
              label |-> IF label /= "" THEN label ELSE id,
              shape |-> IF shape /= NoShape THEN ShapeLead(shape) ELSE "[]",
              line |-> c.line,
              group |-> c.currentGroup])]
  ELSE IF shape /= NoShape /\ ShapeLength(shape) > 2
  THEN [c EXCEPT !.nodes = [i \in 1..Len(c.nodes) |->
             IF c.nodes[i].id = id /\ ShapeInner(shape) /= ""
             THEN [c.nodes[i] EXCEPT !.label = ShapeInner(shape)]
             ELSE c.nodes[i]]]
  ELSE c

parseHeader(line, c) ==
  IF ~OrientationMatch(line)
  THEN [c EXCEPT !.thrown =
          [message |-> "FlowMD must start with graph/flowchart declaration",
           line |-> c.line]]
  ELSE LET o == IF OrientationGroup(line) /= NoShape
                THEN toUpperCase(OrientationGroup(line)) ELSE "TB"
       IN [c EXCEPT !.orientationParsed = TRUE,
                    !.orientation = o,
                    !.logs = Append(@, [type |-> "orientation", value |-> o,
                                        line |-> c.line])]

\* the context after #parseSubgraph, with its return value in currentGroup
parseSubgraph(line, c) ==
  LET parts == SplitWS(line, 1, "", 2)
      name == IF Len(parts) >= 2 THEN parts[2] ELSE ""
  IN IF name = ""
     THEN [c EXCEPT !.warnings = Append(@, makeWarning("Empty subgraph name", c)),
                    !.currentGroup = Null]
     ELSE [c EXCEPT !.groups = IF HasGroup(@, name) THEN @
                               ELSE Append(@, [name |-> name, members |-> <<>>]),
                    !.currentGroup = name]

parseEdge(line, c) ==
  LET lhs == line[1]
      rhs == line[EdgeRhsAt(line)]
      edgeLabel == IF EdgeHasLabel(line) THEN LabelInner(line[EdgeLabelAt(line)])
                   ELSE ""
      c2 == ensureNode(rhs, ensureNode(lhs, c, NoShape), NoShape)
  IN [c2 EXCEPT !.edges = Append(@,
        [id |-> lhs \o "->" \o rhs, source |-> lhs, target |-> rhs,
         label |-> edgeLabel, line |-> c.line])]

parseNode(line, c) ==
  LET id == line[1]
      c2 == ensureNode(id, c, NodeShape(line))
  IN IF c.currentGroup /= Null
     THEN [c2 EXCEPT !.groups = [i \in 1..Len(c2.groups) |->
             IF c2.groups[i].name = c.currentGroup
             THEN [c2.groups[i] EXCEPT !.members = SetAdd(@, id)]
             ELSE c2.groups[i]]]
     ELSE c2

\* the body of the for loop of parse, for the line at 0-based position index
ScanLine(c0, rawLine, index) ==
  LET c == [c0 EXCEPT !.line = index + 1]
      line == Trim(rawLine)
  IN IF line = <<>> \/ line[1] = CommentMark THEN c
     ELSE IF ~c.orientationParsed THEN parseHeader(line, c)
     ELSE IF SubgraphTest(line) THEN parseSubgraph(line, c)
     ELSE IF EndTest(line) THEN [c EXCEPT !.currentGroup = Null]
     ELSE IF EdgeMatch(line) THEN parseEdge(line, c)
     ELSE IF NodeMatch(line) THEN parseNode(line, c)
     ELSE [c EXCEPT !.warnings =
             Append(@, makeWarning("Unrecognised statement", c))]

\* the hard limit tested with >= instead of >
Overflow_AtLimit(n, o) == n >= o.maxNodes
Overflow(n, o) == n > o.maxNodes
Degrade(n, o) == n > o.preferredMaxNodes

EmptyMeta == [orientation |-> "TB", preferredMaxNodes |-> 0, maxNodes |-> 0,
              warnings |-> <<>>, logs |-> <<>>, groups |-> <<>>,
              degrade |-> FALSE, overflow |-> FALSE]
Pending == [kind |-> "pending", message |-> "", line |-> 0,
            nodes |-> <<>>, edges |-> <<>>, meta |-> EmptyMeta]

Throw(message, line) == [Pending EXCEPT !.kind = "error", !.message = message,
                                        !.line = line]

\* parse, after the for loop
Finish(c, o) ==
  LET meta == [orientation |-> c.orientation,
               preferredMaxNodes |-> o.preferredMaxNodes,
               maxNodes |-> o.maxNodes,
               warnings |-> c.warnings,
               logs |-> c.logs,
               groups |-> c.groups,
               degrade |-> Degrade(Len(c.nodes), o),
               overflow |-> Overflow(Len(c.nodes), o)]
  IN IF meta.overflow
     THEN Throw("Node count exceeds hard limit", 0)
     ELSE [Pending EXCEPT !.kind = "doc", !.nodes = c.nodes,
                          !.edges = c.edges, !.meta = meta]

(***************************************************************************)
(* The texts parse is run on                                               *)
(***************************************************************************)
Vocabulary ==
  { <<>>,
    <<"%%", " ", "A">>,
    <<"graph">>,
    <<"flowchart", " ">>,
    <<"flowchart", " ", "LR">>,
    <<"graph", " ", "td">>,
    <<" ", "Graph", " ", "A">>,
    <<"subgraph">>,
    <<"subgraph", " ", "G1">>,
    <<"subgraph", " ", "G2">>,
    <<"end">>,
    <<"A", "-->", "B">>,
    <<"B", " ", "==>", " ", "|go|", " ", "A">>,
    <<"C", "-->", "C">>,
    <<"A">>,
    <<"C", "[x]">>,
    <<"A", " ", "B">> }

DefaultOptions == [maxNodes |-> 1000, preferredMaxNodes |-> 300]
OptionChoices == {DefaultOptions, [maxNodes |-> 2, preferredMaxNodes |-> 1]}

NoGraph == [nodes |-> <<>>, edges |-> <<>>, meta |-> EmptyMeta]
NoModel == [built |-> FALSE, rebuilt |-> FALSE, adjacency |-> [keys |-> <<>>, succ |-> <<>>],
            cycles |-> <<>>]
NoHighlight == [pc |-> "idle", startId |-> "", visited |-> {}, edgeIds |-> {},
                queue |-> <<>>, expanded |-> <<>>]

\* FlowVizApp.constructor: this.highlightState; nothing exported yet
NoApp == [highlightState |-> [nodes |-> {}, edges |-> {}], exported |-> {}]

InitParse ==
  /\ opts \in OptionChoices
  /\ lines = <<>>
  /\ ctx = InitCtx
  /\ pc = "scan"
  /\ result = Pending
  /\ graph = NoGraph
  /\ model = NoModel
  /\ hl = NoHighlight
  /\ app = NoApp

\* one iteration of the for loop: the next line of the text is read
ReadLine ==
  /\ pc = "scan"
  /\ Len(lines) < MaxLines
  /\ \E rawLine \in Vocabulary :
       LET c == ScanLine(ctx, rawLine, Len(lines))
       IN /\ lines' = Append(lines, rawLine)
          /\ ctx' = c
          /\ IF c.thrown /= NoError
             THEN /\ pc' = "done"
                  /\ result' = Throw(c.thrown.message, c.thrown.line)
             ELSE UNCHANGED <<pc, result>>
  /\ UNCHANGED <<opts, graph, model, hl, app>>

\* the text ends (split yields at least one line): the post-scan part of parse
EndOfText ==
  /\ pc = "scan"
  /\ Len(lines) >= 1
  /\ pc' = "done"
  /\ result' = Finish(ctx, opts)
  /\ UNCHANGED <<opts, lines, ctx, graph, model, hl, app>>

NextParse == ReadLine \/ EndOfText

SpecParse == InitParse /\ [][NextParse]_vars

(***************************************************************************)
(* What a text says, read off the lines themselves                         *)
(***************************************************************************)
Significant(rawLine) == Trim(rawLine) /= <<>> /\ Trim(rawLine)[1] /= CommentMark

\* the position of the first non-blank, non-comment line (0 if none)
RECURSIVE FirstSignificantFrom(_, _)
FirstSignificantFrom(ls, i) ==
  IF i > Len(ls) THEN 0
  ELSE IF Significant(ls[i]) THEN i
  ELSE FirstSignificantFrom(ls, i + 1)
FirstSignificant(ls) == FirstSignificantFrom(ls, 1)

\* a line that starts with the keyword graph or flowchart
StartsWithKeyword(line) ==
  Len(line) >= 1 /\ toLowerCase(line[1]) \in {"graph", "flowchart"}

NoHeader(ls) ==
  \/ FirstSignificant(ls) = 0
  \/ ~StartsWithKeyword(Trim(ls[FirstSignificant(ls)]))

\* the ids a statement line names, in the order it names them
LineIds(rawLine) ==
  LET line == Trim(rawLine)
  IN IF ~Significant(rawLine) \/ SubgraphTest(line) \/ EndTest(line) THEN <<>>
     ELSE IF EdgeMatch(line) THEN <<line[1], line[EdgeRhsAt(line)]>>
     ELSE IF NodeMatch(line) THEN <<line[1]>>
     ELSE <<>>

\* the ids sighted by the lines i.. of a text
RECURSIVE SightingsFrom(_, _)
SightingsFrom(ls, i) ==
  IF i > Len(ls) THEN <<>> ELSE LineIds(ls[i]) \o SightingsFrom(ls, i + 1)

\* the ids sighted after the header line
Sightings(ls) ==
  IF FirstSignificant(ls) = 0 THEN <<>>
  ELSE SightingsFrom(ls, FirstSignificant(ls) + 1)

RECURSIVE FirstOccurrences(_)
FirstOccurrences(s) ==
  IF s = <<>> THEN <<>>
  ELSE LET r == FirstOccurrences(SubSeq(s, 1, Len(s) - 1))
       IN IF InSeq(r, s[Len(s)]) THEN r ELSE Append(r, s[Len(s)])

Range(s) == {s[i] : i \in 1..Len(s)}
Ids(nodes) == [i \in 1..Len(nodes) |-> nodes[i].id]
HeaderMessage == "FlowMD must start with graph/flowchart declaration"

(***************************************************************************)
(* Claims about the parser                                                 *)
(***************************************************************************)

\* C1: a text with no recognizable header (its first non-blank, non-comment
\* line is no graph/flowchart declaration, or it has no such line at all)
\* makes parse fail with the structural error and return no document.
C1_NoHeaderFails ==
  (pc = "done" /\ NoHeader(lines))
    => (result.kind = "error" /\ result.message = HeaderMessage)

\* C2: after a full scan with a valid header the number N of distinct node
\* ids decides the outcome: N > maxNodes fails with the overflow error and no
\* document; preferredMaxNodes < N <= maxNodes succeeds with degrade = TRUE;
\* N <= preferredMaxNodes succeeds with degrade = FALSE; overflow is FALSE in
\* every returned document.
C2_OutcomeByNodeCount ==
  (pc = "done" /\ ctx.orientationParsed) =>
    LET N == Cardinality(Range(Sightings(lines)))
    IN /\ N > opts.maxNodes =>
            /\ result.kind = "error"
            /\ result.message = "Node count exceeds hard limit"
            /\ result.nodes = <<>> /\ result.edges = <<>>
            /\ result.meta = EmptyMeta
       /\ (opts.preferredMaxNodes < N /\ N <= opts.maxNodes) =>
            (result.kind = "doc" /\ result.meta.degrade = TRUE)
       /\ N <= opts.preferredMaxNodes =>
            (result.kind = "doc" /\ result.meta.degrade = FALSE)
       /\ result.kind = "doc" => result.meta.overflow = FALSE

\* an overflowing parse that had gathered a warning and an edge
C2_Witness ==
  /\ pc = "done" /\ ctx.orientationParsed
  /\ result.kind = "error"
  /\ Cardinality(Range(Sightings(lines))) > opts.maxNodes
  /\ ctx.warnings /= <<>> /\ ctx.edges /= <<>>

\* C3: in every returned document the nodes hold each sighted id once, in the
\* order of first sighting, whatever node and edge lines the text holds.
C3_NodesUniqueInFirstSightingOrder ==
  result.kind = "doc" => Ids(result.nodes) = FirstOccurrences(Sightings(lines))

\* a document from a text with a self-loop and ids sighted again
C3_Witness ==
  /\ result.kind = "doc"
  /\ \E i \in 1..Len(result.edges) :
       result.edges[i].source = result.edges[i].target
  /\ Len(result.nodes) >= 2
  /\ Len(Sightings(lines)) > Len(result.nodes) + 1

\* C9: a header that is the keyword graph or flowchart alone is accepted and
\* gives orientation TB; a header with one of the tokens TB, TD, BT, RL, LR
\* gives that orientation.
C9_HeaderOrientation ==
  (pc = "done" /\ FirstSignificant(lines) /= 0) =>
    LET h == Trim(lines[FirstSignificant(lines)])
    IN /\ (Len(h) = 1 /\ StartsWithKeyword(h)) =>
            /\ result.message /= HeaderMessage
            /\ result.kind = "doc" => result.meta.orientation = "TB"
       /\ (Len(h) = 3 /\ StartsWithKeyword(h) /\ h[2] \in WhiteSpace
             /\ h[3] \in Orientations) =>
            /\ result.message /= HeaderMessage
            /\ result.kind = "doc" => result.meta.orientation = h[3]

\* C10: after the header, a line that is the keyword subgraph followed by
\* nothing appends the warning 'Empty subgraph name' with that line's number,
\* creates no group, registers no node and no edge, and parsing continues.
C10_EmptySubgraphName ==
  [][(pc = "scan" /\ ctx.orientationParsed /\ Len(lines') = Len(lines) + 1
        /\ Trim(lines'[Len(lines')]) = <<"subgraph">>) =>
       /\ ctx'.warnings = Append(ctx.warnings,
             [message |-> "Empty subgraph name", line |-> Len(lines')])
       /\ ctx'.groups = ctx.groups
       /\ ctx'.nodes = ctx.nodes
       /\ ctx'.edges = ctx.edges
       /\ pc' = "scan"]_vars

(***************************************************************************)
(* GraphModel                                                              *)
(*                                                                         *)
(* A Map is a record of its keys in insertion order and the value of each  *)
(* key; a Set is the sequence of its members in insertion order.  The      *)
(* model's nodes, edges and meta are the document's own (graph).           *)
(***************************************************************************)
EmptyMap == [keys |-> <<>>, succ |-> <<>>]
MapHas(map, k) == InSeq(map.keys, k)
\* Map.prototype.set
MapSet(map, k, v) ==
  IF MapHas(map, k) THEN [map EXCEPT !.succ[k] = v]
  ELSE [keys |-> Append(map.keys, k), succ |-> (k :> v) @@ map.succ]

\* #buildAdjacency: for (const node of this.nodes)
RECURSIVE SeedNodes(_, _, _)
SeedNodes(map, nodes, i) ==
  IF i > Len(nodes) THEN map
  ELSE SeedNodes(MapSet(map, nodes[i].id, <<>>), nodes, i + 1)

\* #buildAdjacency: the body of for (const edge of this.edges), target not
\* registered as a key
AddEdge_NoTargetKey(map, edge) ==
  LET m1 == IF MapHas(map, edge.source) THEN map
            ELSE MapSet(map, edge.source, <<>>)
  IN [m1 EXCEPT !.succ[edge.source] = SetAdd(@, edge.target)]

\* #buildAdjacency: the body of for (const edge of this.edges)
AddEdge(map, edge) ==
  LET m1 == IF MapHas(map, edge.source) THEN map
            ELSE MapSet(map, edge.source, <<>>)
      m2 == IF MapHas(m1, edge.target) THEN m1
            ELSE MapSet(m1, edge.target, <<>>)
  IN [m2 EXCEPT !.succ[edge.source] = SetAdd(@, edge.target)]

RECURSIVE AddEdges(_, _, _)
AddEdges(map, edges, i) ==
  IF i > Len(edges) THEN map
  ELSE AddEdges(AddEdge(map, edges[i]), edges, i + 1)

buildAdjacency(nodes, edges) ==
  AddEdges(SeedNodes(EmptyMap, nodes, 1), edges, 1)

\* Array.prototype.join
RECURSIVE Join(_, _)
Join(s, sep) ==
  IF s = <<>> THEN ""
  ELSE IF Len(s) = 1 THEN s[1]
  ELSE s[1] \o sep \o Join(Tail(s), sep)

\* Array.prototype.indexOf, 1-based (0 when absent)
RECURSIVE IndexFrom(_, _, _)
IndexFrom(s, x, i) ==
  IF i > Len(s) THEN 0 ELSE IF s[i] = x THEN i ELSE IndexFrom(s, x, i + 1)
indexOf(s, x) == IndexFrom(s, x, 1)

\* #detectCycles: the cycle recorded without the closing successor
recordCycle_Unclosed(st, successor) ==
  LET index == indexOf(st.path, successor)
  IN IF index /= 0
     THEN LET cyclePath == SubSeq(st.path, index, Len(st.path))
              key == Join(cyclePath, "->")
          IN IF key \notin st.seen
             THEN [st EXCEPT !.seen = @ \cup {key},
                             !.cycles = Append(@, cyclePath)]
             ELSE st
     ELSE st

\* #detectCycles: the branch else if (stack.has(successor))
recordCycle(st, successor) ==
  LET index == indexOf(st.path, successor)
  IN IF index /= 0
     THEN LET cyclePath == Append(SubSeq(st.path, index, Len(st.path)), successor)
              key == Join(cyclePath, "->")
          IN IF key \notin st.seen
             THEN [st EXCEPT !.seen = @ \cup {key},
                             !.cycles = Append(@, cyclePath)]
             ELSE st
     ELSE st

\* #detectCycles: const dfs = (nodeId) => {...}, and its loop over successors
RECURSIVE dfs(_, _, _)
RECURSIVE dfsSuccessors(_, _, _, _)
dfs(st, adjacency, nodeId) ==
  LET st1 == [st EXCEPT !.visited = @ \cup {nodeId},
                        !.stack = @ \cup {nodeId},
                        !.path = Append(@, nodeId)]
      successors == IF MapHas(adjacency, nodeId) THEN adjacency.succ[nodeId]
                    ELSE <<>>
      st2 == dfsSuccessors(st1, adjacency, successors, 1)
  IN [st2 EXCEPT !.stack = @ \ {nodeId},
                 !.path = SubSeq(@, 1, Len(@) - 1)]
dfsSuccessors(st, adjacency, successors, i) ==
  IF i > Len(successors) THEN st
  ELSE LET successor == successors[i]
           next == IF successor \notin st.visited
                   THEN dfs(st, adjacency, successor)
                   ELSE IF successor \in st.stack
                   THEN recordCycle(st, successor)
                   ELSE st
       IN dfsSuccessors(next, adjacency, successors, i + 1)

\* #detectCycles: for (const node of this.adjacency.keys())
RECURSIVE dfsRoots(_, _, _)
dfsRoots(st, adjacency, i) ==
  IF i > Len(adjacency.keys) THEN st
  ELSE dfsRoots(IF adjacency.keys[i] \notin st.visited
                THEN dfs(st, adjacency, adjacency.keys[i]) ELSE st,
                adjacency, i + 1)

detectCycles(adjacency) ==
  dfsRoots([visited |-> {}, stack |-> {}, path |-> <<>>, seen |-> {},
            cycles |-> <<>>], adjacency, 1).cycles

CycleMessage(cycle) == "Cycle detected: " \o Join(cycle, " -> ")
HasMessage(warnings, message) ==
  \E i \in 1..Len(warnings) : warnings[i].message = message

\* constructor: a cycle warning pushed without looking for its message
pushCycleWarning_NoSomeTest(warnings, cycle) ==
  Append(warnings, [message |-> CycleMessage(cycle), nodes |-> cycle])

\* constructor: the warning put in front of the list (unshift) instead of
\* pushed at its end
pushCycleWarning_Unshift(warnings, cycle) ==
  IF ~HasMessage(warnings, CycleMessage(cycle))
  THEN <<[message |-> CycleMessage(cycle), nodes |-> cycle]>> \o warnings
  ELSE warnings

\* constructor: the body of for (const cycle of this.cycles)
pushCycleWarning(warnings, cycle) ==
  IF ~HasMessage(warnings, CycleMessage(cycle))
  THEN Append(warnings, [message |-> CycleMessage(cycle), nodes |-> cycle])
  ELSE warnings

RECURSIVE pushCycleWarnings(_, _, _)
pushCycleWarnings(warnings, cycles, i) ==
  IF i > Len(cycles) THEN warnings
  ELSE pushCycleWarnings(pushCycleWarning(warnings, cycles[i]), cycles, i + 1)

\* GraphModel.successors
successors(m, nodeId) ==
  IF MapHas(m.adjacency, nodeId) THEN m.adjacency.succ[nodeId] ELSE <<>>

\* GraphModel.findNode (Null when there is none)
findNode(nodes, nodeId) ==
  IF HasNode(nodes, nodeId)
  THEN nodes[CHOOSE i \in 1..Len(nodes) :
               nodes[i].id = nodeId /\ \A j \in 1..(i - 1) : nodes[j].id /= nodeId]
  ELSE [id |-> Null, label |-> Null, shape |-> Null, line |-> 0, group |-> Null]

\* GraphModel.toJSON
toJSON == [nodes |-> graph.nodes, edges |-> graph.edges, meta |-> graph.meta]

(***************************************************************************)
(* HighlightEngine.downstream                                              *)
(***************************************************************************)
\* the test written startId === '': null is let through
IsEmptyStart_OnlyEmptyString(startId) == startId = ""

\* if (!startId): the empty string and null are falsy
IsEmptyStart(startId) == startId \in {"", Null}

EdgeKey(u, v) == u \o "->" \o v

\* the for loop over the successors of nodeId, the edge recorded only when
\* the successor is enqueued
visitSuccessors_EdgeInsideIf(h, nodeId, succs, i) ==
  LET fresh == SelectSeq(succs, LAMBDA x : x \notin h.visited)
  IN [h EXCEPT !.edgeIds = @ \cup {EdgeKey(nodeId, fresh[j]) : j \in 1..Len(fresh)},
               !.queue = @ \o fresh]

\* the for loop over the successors of nodeId, from the i-th on
RECURSIVE visitSuccessors(_, _, _, _)
visitSuccessors(h, nodeId, succs, i) ==
  IF i > Len(succs) THEN h
  ELSE LET successor == succs[i]
           h1 == [h EXCEPT !.edgeIds = @ \cup {EdgeKey(nodeId, successor)}]
           h2 == IF successor \notin h1.visited
                 THEN [h1 EXCEPT !.queue = Append(@, successor)] ELSE h1
       IN visitSuccessors(h2, nodeId, succs, i + 1)

\* one iteration of while (queue.length), the visited node not taken off
\* the queue before it is skipped
loopBody_SkipBeforeShift(h, m) ==
  LET nodeId == Head(h.queue)
  IN IF nodeId \in h.visited THEN h
     ELSE visitSuccessors([h EXCEPT !.queue = Tail(@),
                                    !.visited = @ \cup {nodeId},
                                    !.expanded = Append(@, nodeId)],
                          nodeId, successors(m, nodeId), 1)

\* one iteration of while (queue.length)
loopBody(h, m) ==
  LET nodeId == Head(h.queue)
      h1 == [h EXCEPT !.queue = Tail(@)]
  IN IF nodeId \in h1.visited THEN h1
     ELSE visitSuccessors([h1 EXCEPT !.visited = @ \cup {nodeId},
                                     !.expanded = Append(@, nodeId)],
                          nodeId, successors(m, nodeId), 1)

(***************************************************************************)
(* The documents GraphModel is built from                                  *)
(***************************************************************************)
MaxEdges == 3

NodeIds == {"A", "B", "C"}
MkNode(id) == [id |-> id, label |-> id, shape |-> "[]", line |-> 1,
               group |-> Null]
MkEdge(s, t) == [id |-> EdgeKey(s, t), source |-> s, target |-> t,
                 label |-> "", line |-> 1]
NodeLists == { <<>>, <<MkNode("B"), MkNode("A")>>,
               <<MkNode("A"), MkNode("B"), MkNode("C")>> }
EdgeRecords == {MkEdge(s, t) : s \in NodeIds, t \in NodeIds}
EdgeLists == UNION {[1..n -> EdgeRecords] : n \in 0..MaxEdges}
WarningLists == { <<>>, <<[message |-> "Unrecognised statement", line |-> 2]>> }
\* the start ids downstream is called with: "" and null are the empty and the
\* absent id, "Z" is unknown to the model
StartIds == {"", Null, "A", "B", "Z"}

InitModel ==
  /\ opts = DefaultOptions
  /\ lines = <<>>
  /\ ctx = InitCtx
  /\ pc = "done"
  /\ result = Pending
  /\ \E ns \in NodeLists, es \in EdgeLists, ws \in WarningLists :
       graph = [nodes |-> ns, edges |-> es,
                meta |-> [EmptyMeta EXCEPT !.warnings = ws,
                            !.maxNodes = opts.maxNodes,
                            !.preferredMaxNodes = opts.preferredMaxNodes]]
  /\ model = NoModel
  /\ hl = NoHighlight
  /\ app = NoApp

\* new GraphModel(graph)
Construct ==
  /\ hl.pc /= "loop"
  /\ LET adjacency == buildAdjacency(graph.nodes, graph.edges)
         cycles == detectCycles(adjacency)
     IN /\ model' = [built |-> TRUE, rebuilt |-> model.built,
                      adjacency |-> adjacency, cycles |-> cycles]
        /\ graph' = [graph EXCEPT !.meta.warnings =
                       pushCycleWarnings(@, cycles, 1)]
  /\ UNCHANGED hl
  /\ UNCHANGED <<parserVars, app>>

\* downstream(startId), up to the while loop
Downstream ==
  /\ model.built
  /\ hl.pc /= "loop"
  /\ \E startId \in StartIds :
       hl' = IF IsEmptyStart(startId)
             THEN [NoHighlight EXCEPT !.pc = "done", !.startId = startId]
             ELSE [NoHighlight EXCEPT !.pc = "loop", !.startId = startId,
                                      !.queue = <<startId>>]
  /\ UNCHANGED <<graph, model>>
  /\ UNCHANGED <<parserVars, app>>

\* downstream: one iteration of the while loop
DownstreamLoop ==
  /\ hl.pc = "loop"
  /\ hl.queue /= <<>>
  /\ hl' = loopBody(hl, model)
  /\ UNCHANGED <<graph, model>>
  /\ UNCHANGED <<parserVars, app>>

\* downstream: the queue is empty, return { nodes: visited, edges: edgeIds }
DownstreamReturn ==
  /\ hl.pc = "loop"
  /\ hl.queue = <<>>
  /\ hl' = [hl EXCEPT !.pc = "done"]
  /\ UNCHANGED <<graph, model>>
  /\ UNCHANGED <<parserVars, app>>

NextModel == Construct \/ Downstream \/ DownstreamLoop \/ DownstreamReturn

\* the while loop of downstream runs to completion: the code is synchronous
SpecModel ==
  /\ InitModel /\ [][NextModel]_vars
  /\ WF_vars(DownstreamLoop) /\ WF_vars(DownstreamReturn)

(***************************************************************************)
(* What a document says, read off its nodes and edges                      *)
(***************************************************************************)
\* the ids one step along an edge from the ids of S
StepFrom(edges, S) == {edges[i].target : i \in {j \in 1..Len(edges) : edges[j].source \in S}}

\* the ids reachable from the ids of S along the edges (S included)
RECURSIVE Closure(_, _)
Closure(edges, S) ==
  IF StepFrom(edges, S) \subseteq S THEN S
  ELSE Closure(edges, S \cup StepFrom(edges, S))

Reachable(edges, startId) == Closure(edges, {startId})
\* the ids reachable from u by at least one edge
ReachablePlus(edges, u) == Closure(edges, StepFrom(edges, {u}))
Endpoints(edges) ==
  {edges[i].source : i \in 1..Len(edges)} \cup {edges[i].target : i \in 1..Len(edges)}
HasDirectedCycle(edges) == \E u \in Endpoints(edges) : u \in ReachablePlus(edges, u)

\* the targets of the edges that leave u, in edge order
RECURSIVE TargetsFrom(_, _, _)
TargetsFrom(edges, u, i) ==
  IF i > Len(edges) THEN <<>>
  ELSE (IF edges[i].source = u THEN <<edges[i].target>> ELSE <<>>)
         \o TargetsFrom(edges, u, i + 1)

\* source and target of every edge, in edge order
RECURSIVE EndpointList(_, _)
EndpointList(edges, i) ==
  IF i > Len(edges) THEN <<>>
  ELSE <<edges[i].source, edges[i].target>> \o EndpointList(edges, i + 1)

NoDuplicates(s) == \A i, j \in 1..Len(s) : s[i] = s[j] => i = j

(***************************************************************************)
(* Claims about GraphModel and HighlightEngine                             *)
(***************************************************************************)

\* C4: the adjacency keys are exactly the node ids together with every edge
\* source and target (declared nodes first, then edge-only ids as first met),
\* and successors(u) is the distinct targets of the edges leaving u in order
\* of first occurrence; an isolated node has no successors.
C4_AdjacencyKeysAndSuccessors ==
  model.built =>
    /\ model.adjacency.keys =
         FirstOccurrences(Ids(graph.nodes) \o EndpointList(graph.edges, 1))
    /\ Range(model.adjacency.keys) = Range(Ids(graph.nodes)) \cup Endpoints(graph.edges)
    /\ \A u \in NodeIds \cup StartIds :
         successors(model, u) = FirstOccurrences(TargetsFrom(graph.edges, u, 1))

\* a model with an edge endpoint that has no NodeRecord, an isolated declared
\* node and a repeated edge
C4_Witness ==
  /\ model.built
  /\ \E i \in 1..Len(graph.edges) : ~HasNode(graph.nodes, graph.edges[i].target)
  /\ \E i \in 1..Len(graph.nodes) :
       /\ graph.nodes[i].id \notin Endpoints(graph.edges)
       /\ successors(model, graph.nodes[i].id) = <<>>
  /\ ~NoDuplicates(graph.edges)

\* C5: for a non-empty startId, downstream returns as nodes exactly the ids
\* reachable from startId (startId included, also when it is a sink or
\* unknown), and as edges exactly the keys u->v of the edges leaving a
\* reachable u; both endpoints of a returned edge are returned nodes.
C5_DownstreamIsReachability ==
  (hl.pc = "done" /\ hl.startId \notin {"", Null}) =>
    LET R == Reachable(graph.edges, hl.startId)
    IN /\ hl.visited = R
       /\ hl.startId \in hl.visited
       /\ hl.edgeIds = {EdgeKey(graph.edges[i].source, graph.edges[i].target) :
                          i \in {j \in 1..Len(graph.edges) : graph.edges[j].source \in R}}
       /\ \A u, v \in NodeIds \cup StartIds :
            EdgeKey(u, v) \in hl.edgeIds => (u \in hl.visited /\ v \in hl.visited)

\* a finished traversal of a cycle through the start node
C5_Witness ==
  /\ hl.pc = "done"
  /\ Cardinality(hl.visited) = 3
  /\ \E u \in hl.visited \ {hl.startId} : EdgeKey(u, hl.startId) \in hl.edgeIds

\* C6: downstream terminates on every graph: a dequeued node that is already
\* visited is skipped with no effect on the result, no node has its
\* successors expanded twice, and every started traversal returns.
C6_DownstreamTerminates ==
  /\ [][(hl.pc = "loop" /\ hl.queue /= <<>>) =>
          /\ Head(hl.queue) \in hl.visited =>
               /\ hl'.visited = hl.visited
               /\ hl'.edgeIds = hl.edgeIds
               /\ hl'.expanded = hl.expanded
          /\ NoDuplicates(hl'.expanded)
          /\ Range(hl'.expanded) = hl'.visited]_vars
  /\ [](hl.pc = "loop" => <>(hl.pc = "done" /\ hl.queue = <<>>))

\* a node that was enqueued twice is dequeued for the second time
C6_Witness ==
  /\ hl.pc = "loop"
  /\ hl.queue /= <<>>
  /\ Head(hl.queue) \in hl.visited

\* C7: at least one cycle is recorded exactly when the edges hold a directed
\* cycle (a self-loop counts); every recorded cycle starts and ends with the
\* same id and follows edges; no cycle is recorded twice.
C7_CyclesRecorded ==
  model.built =>
    /\ (model.cycles /= <<>>) <=> HasDirectedCycle(graph.edges)
    /\ \A k \in 1..Len(model.cycles) :
         LET c == model.cycles[k]
         IN /\ Len(c) >= 2
            /\ c[1] = c[Len(c)]
            /\ \A i \in 1..(Len(c) - 1) : InSeq(successors(model, c[i]), c[i + 1])
    /\ NoDuplicates(model.cycles)

\* a model with a self-loop and a longer cycle recorded
C7_Witness ==
  /\ model.built
  /\ \E k \in 1..Len(model.cycles) : Len(model.cycles[k]) = 2
  /\ \E k \in 1..Len(model.cycles) : Len(model.cycles[k]) >= 3

\* C8: after construction meta.warnings holds exactly one cycle warning per
\* recorded cycle, and a further construction from the same document leaves
\* the warnings as they are.
C8_OneWarningPerCycle ==
  [][/\ model'.built =>
          /\ \A k \in 1..Len(model'.cycles) :
               Cardinality({i \in 1..Len(graph'.meta.warnings) :
                  graph'.meta.warnings[i].message = CycleMessage(model'.cycles[k])}) = 1
          /\ Cardinality({i \in 1..Len(graph'.meta.warnings) :
                  graph'.meta.warnings[i].message /= "Unrecognised statement"})
               = Len(model'.cycles)
     /\ model.built => graph'.meta.warnings = graph.meta.warnings]_vars

\* a model built a second time from its document, with two recorded cycles,
\* both warned of once, after a parser warning
C8_Witness ==
  /\ model.rebuilt
  /\ Len(model.cycles) >= 2
  /\ Len(graph.meta.warnings) = Len(model.cycles) + 1

(***************************************************************************)
(* Claims about grouping                                                   *)
(***************************************************************************)
\* the member ids of group g (none when there is no such group)
Members(groups, g) ==
  UNION {Range(groups[i].members) : i \in {j \in 1..Len(groups) : groups[j].name = g}}
GroupNames(groups) == {groups[i].name : i \in 1..Len(groups)}
\* the group field of the NodeRecord of id
GroupOf(nodes, id) == nodes[CHOOSE i \in 1..Len(nodes) : nodes[i].id = id].group

\* C11: once a node id is registered, no later line changes its group field
\* and no later line adds it to the member set of any group, so an id is a
\* member of at most one group.
C11_GroupFixedAtFirstSighting ==
  [][/\ \A id \in Range(Ids(ctx.nodes)) :
          /\ HasNode(ctx'.nodes, id)
          /\ GroupOf(ctx'.nodes, id) = GroupOf(ctx.nodes, id)
          /\ \A g \in GroupNames(ctx'.groups) :
               id \in Members(ctx'.groups, g) => id \in Members(ctx.groups, g)
     /\ \A id \in Range(Ids(ctx'.nodes)) :
          Cardinality({g \in GroupNames(ctx'.groups) :
                         id \in Members(ctx'.groups, g)}) <= 1]_vars

\* C14: in every returned document the two records of grouping agree: id n
\* is a member of meta.groups[g] exactly when the NodeRecord of n has
\* group = g.
C14_GroupRecordsAgree ==
  result.kind = "doc" =>
    \A i \in 1..Len(result.nodes) :
      \A g \in (GroupNames(result.meta.groups) \cup {result.nodes[i].group}) \ {Null} :
        (result.nodes[i].id \in Members(result.meta.groups, g))
          <=> (result.nodes[i].group = g)

(***************************************************************************)
(* Claims about what construction and downstream leave alone               *)
(***************************************************************************)
IsPrefix(s, t) == Len(s) <= Len(t) /\ SubSeq(t, 1, Len(s)) = s

\* what downstream(startId) is to return on a document with these edges
ExpectedDownstream(edges, startId) ==
  IF startId \in {"", Null} THEN [nodes |-> {}, edges |-> {}]
  ELSE LET R == Reachable(edges, startId)
       IN [nodes |-> R,
           edges |-> {EdgeKey(edges[i].source, edges[i].target) :
                        i \in {j \in 1..Len(edges) : edges[j].source \in R}}]

\* C12: constructing a GraphModel changes the document only by appending
\* cycle warnings to meta.warnings: nodes, edges and the other meta fields
\* stay, the earlier warnings stay in front in their order, and toJSON gives
\* those nodes and edges and the meta with the appended warnings.
C12_ConstructionOnlyAppendsWarnings ==
  [][/\ graph'.nodes = graph.nodes
     /\ graph'.edges = graph.edges
     /\ [graph'.meta EXCEPT !.warnings = <<>>] = [graph.meta EXCEPT !.warnings = <<>>]
     /\ IsPrefix(graph.meta.warnings, graph'.meta.warnings)
     /\ \A i \in (Len(graph.meta.warnings) + 1)..Len(graph'.meta.warnings) :
          \E k \in 1..Len(model'.cycles) :
            graph'.meta.warnings[i] =
              [message |-> CycleMessage(model'.cycles[k]), nodes |-> model'.cycles[k]]
     /\ model'.built =>
          toJSON' = [nodes |-> graph.nodes, edges |-> graph.edges,
                     meta |-> [graph.meta EXCEPT !.warnings = graph'.meta.warnings]]]_vars

\* a built model whose document kept its parser warning in front of the
\* cycle warnings appended by construction
C12_Witness ==
  /\ model.built
  /\ Len(toJSON.meta.warnings) >= 2
  /\ toJSON.meta.warnings[1] = [message |-> "Unrecognised statement", line |-> 2]
  /\ toJSON.edges /= <<>>

\* C13: downstream with an empty or absent startId returns two empty sets at
\* once, without expanding any node; no step of any downstream call changes
\* the model or its document; and what a call returns is fixed by the
\* document and the start id, so two calls with one start id return the same.
C13_DownstreamReadOnly ==
  [][/\ (hl' /= hl /\ hl'.startId \in {"", Null}) =>
          /\ hl.pc /= "loop"
          /\ hl'.pc = "done"
          /\ hl'.visited = {} /\ hl'.edgeIds = {}
          /\ hl'.expanded = <<>> /\ hl'.queue = <<>>
     /\ hl' /= hl => (model' = model /\ graph' = graph)
     /\ hl'.pc = "done" =>
          [nodes |-> hl'.visited, edges |-> hl'.edgeIds]
            = ExpectedDownstream(graph.edges, hl'.startId)]_vars

\* downstream(null) has returned on a model with a cycle
C13_Witness ==
  /\ model.built
  /\ model.cycles /= <<>>
  /\ hl.pc = "done"
  /\ hl.startId = Null
  /\ hl.visited = {}

(***************************************************************************)
(* FlowVizApp: the viewer's handlers                                       *)
(***************************************************************************)
\* the for loop of parse over a whole text; it stops at a throw
RECURSIVE ScanFrom(_, _, _)
ScanFrom(c, text, i) ==
  IF i > Len(text) \/ c.thrown /= NoError THEN c
  ELSE ScanFrom(ScanLine(c, text[i], i - 1), text, i + 1)

\* FlowMDParser.parse(text)
parse(text, o) ==
  LET c == ScanFrom(InitCtx, text, 1)
  IN IF c.thrown /= NoError THEN Throw(c.thrown.message, c.thrown.line)
     ELSE Finish(c, o)

\* the while loop of downstream, run until the queue is empty
RECURSIVE RunLoop(_, _)
RunLoop(h, m) == IF h.queue = <<>> THEN h ELSE RunLoop(loopBody(h, m), m)

\* HighlightEngine.downstream(startId): { nodes, edges }
downstream(m, startId) ==
  IF IsEmptyStart(startId) THEN [nodes |-> {}, edges |-> {}]
  ELSE LET h == RunLoop([NoHighlight EXCEPT !.pc = "loop", !.startId = startId,
                                            !.queue = <<startId>>], m)
       IN [nodes |-> h.visited, edges |-> h.edgeIds]

\* edgeId.split('->'): [source, target]
SplitEdgeId(edgeId) ==
  CHOOSE p \in WordTokens \X WordTokens : EdgeKey(p[1], p[2]) = edgeId

\* Exporter.exportCsv: the rows after the header row
exportCsv(edges, highlight) ==
  IF highlight.edges /= {}
  THEN {SplitEdgeId(edgeId) : edgeId \in highlight.edges}
  ELSE {<<edges[i].source, edges[i].target>> : i \in 1..Len(edges)}

\* n.label.includes(query), on the labels and queries used
LabelIncludes(label, query) == label = query

\* FlowVizApp.search: the position in nodes of the node found (0 if none)
SearchNode(nodes, query) ==
  LET hits == {i \in 1..Len(nodes) :
                 nodes[i].id = query \/ LabelIncludes(nodes[i].label, query)}
  IN IF hits = {} THEN 0 ELSE CHOOSE i \in hits : \A j \in hits : i <= j

HeaderLine == <<"flowchart", " ", "LR">>
\* the texts loaded into the viewer
ViewerTexts ==
  { <<HeaderLine, <<"A", "-->", "B">>>>,
    <<HeaderLine, <<"B", " ", "==>", " ", "|go|", " ", "A">>, <<"A", "-->", "B">>>>,
    <<HeaderLine, <<"C", "-->", "C">>, <<"A">>>>,
    <<HeaderLine, <<"C", "[x]">>, <<"A", " ", "B">>>>,
    <<HeaderLine, <<"C", "-->", "A">>>>,
    <<<<"graph">>>> }
SearchQueries == {"", "A", "x", "Z"}

InitViewer ==
  /\ opts = DefaultOptions
  /\ lines = <<>>
  /\ ctx = InitCtx
  /\ pc = "done"
  /\ result = Pending
  /\ graph = NoGraph
  /\ model = NoModel
  /\ hl = NoHighlight
  /\ app = NoApp

\* FlowVizApp.parseAndRender(text, sourceLabel)
ParseAndRender ==
  \E text \in ViewerTexts :
    LET r == parse(text, opts)
    IN /\ lines' = text
       /\ result' = r
       /\ IF r.kind = "doc"
          THEN LET adjacency == buildAdjacency(r.nodes, r.edges)
                   cycles == detectCycles(adjacency)
               IN /\ model' = [built |-> TRUE, rebuilt |-> FALSE,
                               adjacency |-> adjacency, cycles |-> cycles]
                  /\ graph' = [nodes |-> r.nodes, edges |-> r.edges,
                               meta |-> [r.meta EXCEPT !.warnings =
                                           pushCycleWarnings(@, cycles, 1)]]
          ELSE UNCHANGED <<graph, model>>
       /\ UNCHANGED <<opts, ctx, pc, hl, app>>

\* FlowVizApp.highlight(nodeId)
highlight(nodeId) ==
  IF ~model.built THEN UNCHANGED app
  ELSE app' = [app EXCEPT !.highlightState = downstream(model, nodeId)]

\* a click on a rendered node: highlight(d.id)
ClickNode ==
  /\ model.built
  /\ \E i \in 1..Len(graph.nodes) : highlight(graph.nodes[i].id)
  /\ UNCHANGED <<parserVars, graph, model, hl>>

\* FlowVizApp.search(query)
Search ==
  /\ \E query \in SearchQueries :
       IF query = "" \/ ~model.built \/ SearchNode(graph.nodes, query) = 0
       THEN UNCHANGED app
       ELSE highlight(graph.nodes[SearchNode(graph.nodes, query)].id)
  /\ UNCHANGED <<parserVars, graph, model, hl>>

\* FlowVizApp.clear (the reset button)
Clear ==
  /\ model' = NoModel
  /\ graph' = NoGraph
  /\ app' = [app EXCEPT !.highlightState = [nodes |-> {}, edges |-> {}]]
  /\ UNCHANGED <<parserVars, hl>>

\* the export-csv button
ExportCsv ==
  /\ IF ~model.built THEN UNCHANGED app
     ELSE app' = [app EXCEPT !.exported = exportCsv(graph.edges, app.highlightState)]
  /\ UNCHANGED <<parserVars, graph, model, hl>>

NextViewer == ParseAndRender \/ ClickNode \/ Search \/ Clear \/ ExportCsv

SpecViewer == InitViewer /\ [][NextViewer]_vars

(***************************************************************************)
(* Claims about the viewer                                                 *)
(***************************************************************************)
\* C15: after any sequence of viewer operations the highlight state refers
\* to the loaded model only: its node ids are adjacency keys of the model,
\* its edge keys are (source, successor) pairs of the model, and it is empty
\* when no model is loaded; a CSV export emits only edges of the loaded graph.
C15_HighlightRefersToCurrentModel ==
  [][/\ ~model'.built =>
          app'.highlightState = [nodes |-> {}, edges |-> {}]
     /\ model'.built =>
          /\ \A n \in app'.highlightState.nodes : MapHas(model'.adjacency, n)
          /\ \A k \in app'.highlightState.edges :
               \E u \in Range(model'.adjacency.keys) :
                 \E j \in 1..Len(successors(model', u)) :
                   k = EdgeKey(u, successors(model', u)[j])
     /\ app'.exported /= app.exported =>
          \A row \in app'.exported :
            \E i \in 1..Len(graph.edges) :
              row = <<graph.edges[i].source, graph.edges[i].target>>]_vars

====
